---- MODULE Spec2Model ----
(***************************************************************************)
(* Model of the Monster Hunter Now scrapers of this repository:            *)
(*   src/src/claude/scrape_mhn_quest.py         (MHNQuestScraper, async)   *)
(*   src/src/gemini/scrape_mhn_quest_gemini.py  (MHNScraper, sync)         *)
(*                                                                         *)
(* Specifications:                                                         *)
(*   SpecExtract  the field extractors _extract_text / _extract_list       *)
(*                applied to a scoped element                              *)
(*   SpecParse    a category parser of MHNQuestScraper called on a page    *)
(*   SpecGParse   a parser of MHNScraper called on a document              *)
(*   SpecRecord   GameDataEntry.to_dict and its JSON round trip            *)
(*   Spec         a run of main_async (MHNQuestScraper)                    *)
(*   SpecGemini   a run of main (MHNScraper)                               *)
(***************************************************************************)
EXTENDS Integers, Sequences, FiniteSets, TLC

VARIABLES
  exScope,      \* the element handed to the field extractor
  exSelector,   \* the comma-separated selector string handed to it
  exCall,       \* "none" | "text" | "list": which extractor has run
  exResult,     \* what the extractor returned and which queries it made
  pSection,     \* the section a category parser is called for
  pPage,        \* the page handed to it: what its item queries return
  pCall,        \* "none" | "parsed"
  pOut,         \* the records returned and the item queries made
  rEntry,       \* a GameDataEntry (dataclass instance)
  rCall,        \* "none" | "done"
  rOut,         \* its to_dict(), the JSON text of that, and the text read back
  pc,           \* the position of the run in main_async / main
  mode,         \* "normal" | "debug"
  idx,          \* the position of the section loop in its order
  report,       \* self.report: the section outcomes and global_errors
  all_data,     \* the records held per section (all_data / self.data)
  browser,      \* "none" | "open" | "closed"
  curPage,      \* what the loaded page answers to the item queries
  catState,     \* per section: how far its attempt has come
  files,        \* the output files written, by name
  debugFiles,   \* the sections whose raw markup has been saved
  summaries,    \* the number of times the summary has been printed
  exitCode,     \* the exit code of the process, NoExit while it runs
  escaped,      \* an exception has left the section loop
  waited,       \* how the content-ready wait of the current section ended
  settled,      \* the settle delay (ms) after which the loaded page was read, 0 before
  parsed        \* the section whose parser has run on curPage, or "none"

exVars == <<exScope, exSelector, exCall, exResult>>
pVars == <<pSection, pPage, pCall, pOut>>
rVars == <<rEntry, rCall, rOut>>
oVars == <<pc, mode, idx, report, all_data, browser, curPage, catState,
           files, debugFiles, summaries, exitCode, escaped, waited, settled,
           parsed>>
vars == <<exVars, pVars, rVars, oVars>>

----------------------------------------------------------------------------
(* Bounds *)

\* largest number of sub-elements below one scoped element
MaxChildren == 2

\* largest number of item elements a page holds (primary and fallback
\* matches together)
MaxItems == 2

----------------------------------------------------------------------------
(* Text: a Python str is a sequence of characters; " " stands for any      *)
(* whitespace character. text_content() may also return None.              *)

Whitespace == {" "}

None == [some |-> FALSE, chars |-> <<>>]
Str(s) == [some |-> TRUE, chars |-> s]

\* the raw texts sub-elements carry in the model
TextSamples ==
  { None, Str(<<>>), Str(<<" ">>), Str(<<"a">>), Str(<<" ", "a", " ">>),
    Str(<<"a", "a">>) }

RECURSIVE lstrip(_)
lstrip(s) ==
  IF s # <<>> /\ Head(s) \in Whitespace THEN lstrip(Tail(s)) ELSE s

RECURSIVE rstrip(_)
rstrip(s) ==
  IF s # <<>> /\ s[Len(s)] \in Whitespace
    THEN rstrip(SubSeq(s, 1, Len(s) - 1))
    ELSE s

\* str.strip()
strip(s) == rstrip(lstrip(s))

\* truth value of an Optional[str]: None and "" are falsy
Truthy(t) == t.some /\ t.chars # <<>>

----------------------------------------------------------------------------
(* Selector strings: a sequence of tokens, "," separating the candidates   *)
(* and " " the blank after each comma, as in ".name-en, .name".            *)

RECURSIVE CommaJoin(_)
CommaJoin(atoms) ==
  IF Len(atoms) = 0 THEN <<>>
  ELSE IF Len(atoms) = 1 THEN <<atoms[1]>>
  ELSE <<atoms[1], ",", " ">> \o CommaJoin(Tail(atoms))

\* ScraperConfig.selectors
selectors ==
  [ monsters |->
      [ container |-> CommaJoin(<<".monster-list", ".card-container", "[class*='monster']">>),
        item      |-> CommaJoin(<<".monster-card", ".list-item", "[class*='item']">>),
        name_en   |-> CommaJoin(<<".name-en", ".name", "[lang='en']">>),
        name_jp   |-> CommaJoin(<<".name-jp", "[lang='ja']">>),
        weakness  |-> CommaJoin(<<".weakness", ".element">>),
        materials |-> CommaJoin(<<".material", ".drop">>) ],
    weapons |->
      [ container    |-> CommaJoin(<<".weapon-list", ".card-container">>),
        item         |-> CommaJoin(<<".weapon-card", ".list-item">>),
        name_en      |-> CommaJoin(<<".name-en", ".name">>),
        name_jp      |-> CommaJoin(<<".name-jp", "[lang='ja']">>),
        weapon_class |-> CommaJoin(<<".type", ".class">>),
        rarity       |-> CommaJoin(<<".rarity", ".stars">>) ],
    armor |->
      [ container |-> CommaJoin(<<".armor-list", ".card-container">>),
        item      |-> CommaJoin(<<".armor-card", ".list-item">>),
        name_en   |-> CommaJoin(<<".name-en", ".name">>),
        name_jp   |-> CommaJoin(<<".name-jp", "[lang='ja']">>),
        slot      |-> CommaJoin(<<".slot", ".piece">>),
        skills    |-> CommaJoin(<<".skill">>) ],
    skills |->
      [ container   |-> CommaJoin(<<".skill-list", ".card-container">>),
        item        |-> CommaJoin(<<".skill-card", ".list-item">>),
        name_en     |-> CommaJoin(<<".name-en", ".name">>),
        name_jp     |-> CommaJoin(<<".name-jp", "[lang='ja']">>),
        description |-> CommaJoin(<<".description", ".desc">>) ],
    items |->
      [ container   |-> CommaJoin(<<".item-list", ".card-container">>),
        item        |-> CommaJoin(<<".item-card", ".list-item">>),
        name_en     |-> CommaJoin(<<".name-en", ".name">>),
        name_jp     |-> CommaJoin(<<".name-jp", "[lang='ja']">>),
        category    |-> CommaJoin(<<".category", ".type">>),
        description |-> CommaJoin(<<".description", ".desc">>) ] ]

\* selector.split(','): the pieces between the commas, blanks still on them
RECURSIVE split(_, _)
split(selector, piece) ==
  IF selector = <<>> THEN <<piece>>
  ELSE IF Head(selector) = "," THEN <<piece>> \o split(Tail(selector), <<>>)
  ELSE split(Tail(selector), Append(piece, Head(selector)))

\* [sel.strip() for sel in selector.split(',')]
Candidates(selector) ==
  LET pieces == split(selector, <<>>)
  IN [k \in 1..Len(pieces) |-> strip(pieces[k])]

----------------------------------------------------------------------------
(* Elements: the sub-elements below a scoped element in document order,    *)
(* each matched by one simple selector and carrying a raw text.  A handle  *)
(* can fail: err names the one call that raises (a query for a selector,   *)
(* or reading the text of a sub-element); the first raising call ends an   *)
(* extraction, so one error point per element covers every outcome.        *)

NoErr == [kind |-> "none", sel |-> <<>>, idx |-> 0]
QueryErr(sel) == [kind |-> "query", sel |-> sel, idx |-> 0]
TextErr(i) == [kind |-> "text", sel |-> <<>>, idx |-> i]

RECURSIVE MatchingFrom(_, _, _)
MatchingFrom(element, sel, i) ==
  IF i > Len(element.children) THEN <<>>
  ELSE IF <<element.children[i].cls>> = sel
    THEN <<i>> \o MatchingFrom(element, sel, i + 1)
    ELSE MatchingFrom(element, sel, i + 1)

\* element.query_selector_all(sel): the matching sub-elements in document
\* order, or an exception
query_selector_all(element, sel) ==
  IF element.err = QueryErr(sel)
    THEN [ok |-> FALSE, elems |-> <<>>]
    ELSE [ok |-> TRUE, elems |-> MatchingFrom(element, sel, 1)]

\* element.query_selector(sel): the first matching sub-element or None
query_selector(element, sel) ==
  LET all == query_selector_all(element, sel)
  IN [ok |-> all.ok,
      found |-> all.ok /\ all.elems # <<>>,
      elem |-> IF all.ok /\ all.elems # <<>> THEN all.elems[1] ELSE 0]

\* sub_element.text_content(): the raw text, None, or an exception
text_content(element, i) ==
  IF element.err = TextErr(i)
    THEN [ok |-> FALSE, text |-> None]
    ELSE [ok |-> TRUE, text |-> element.children[i].text]

----------------------------------------------------------------------------
(* Field extractors.  A result records the value returned, the candidate   *)
(* selectors queried (in the order of the queries) and whether an          *)
(* exception left the extractor.                                           *)

Returned(value, queried) == [value |-> value, queried |-> queried, raised |-> FALSE]
Raised(queried) == [value |-> <<>>, queried |-> queried, raised |-> TRUE]

RECURSIVE ExtractTextFrom(_, _, _, _)
ExtractTextFrom(element, sels, k, queried) ==
  IF k > Len(sels) THEN Returned(<<>>, queried)                  \* return ""
  ELSE
    LET sub == query_selector(element, sels[k])
        qd == Append(queried, sels[k])
    IN IF ~sub.ok THEN Returned(<<>>, qd)                        \* except: pass
       ELSE IF sub.found
         THEN LET text == text_content(element, sub.elem)
              IN IF ~text.ok THEN Returned(<<>>, qd)             \* except: pass
                 ELSE IF Truthy(text.text)
                   THEN Returned(strip(text.text.chars), qd)
                   ELSE Returned(<<>>, qd)
         ELSE ExtractTextFrom(element, sels, k + 1, qd)

\* bug: an empty text does not end the search (first NON-EMPTY text wins)
RECURSIVE ExtractTextSkipEmptyFrom(_, _, _, _)
ExtractTextSkipEmptyFrom(element, sels, k, queried) ==
  IF k > Len(sels) THEN Returned(<<>>, queried)
  ELSE
    LET sub == query_selector(element, sels[k])
        qd == Append(queried, sels[k])
    IN IF ~sub.ok THEN Returned(<<>>, qd)
       ELSE IF sub.found
         THEN LET text == text_content(element, sub.elem)
              IN IF ~text.ok THEN Returned(<<>>, qd)
                 ELSE IF Truthy(text.text) /\ strip(text.text.chars) # <<>>
                   THEN Returned(strip(text.text.chars), qd)
                   ELSE ExtractTextSkipEmptyFrom(element, sels, k + 1, qd)
         ELSE ExtractTextSkipEmptyFrom(element, sels, k + 1, qd)

_extract_text_skip_empty(element, selector) ==
  ExtractTextSkipEmptyFrom(element, Candidates(selector), 1, <<>>)

\* bug: no try/except around the queries
RECURSIVE ExtractTextNoExceptFrom(_, _, _, _)
ExtractTextNoExceptFrom(element, sels, k, queried) ==
  IF k > Len(sels) THEN Returned(<<>>, queried)
  ELSE
    LET sub == query_selector(element, sels[k])
        qd == Append(queried, sels[k])
    IN IF ~sub.ok THEN Raised(qd)
       ELSE IF sub.found
         THEN LET text == text_content(element, sub.elem)
              IN IF ~text.ok THEN Raised(qd)
                 ELSE IF Truthy(text.text)
                   THEN Returned(strip(text.text.chars), qd)
                   ELSE Returned(<<>>, qd)
         ELSE ExtractTextNoExceptFrom(element, sels, k + 1, qd)

_extract_text_no_except(element, selector) ==
  ExtractTextNoExceptFrom(element, Candidates(selector), 1, <<>>)

\* MHNQuestScraper._extract_text(element, selector)
_extract_text(element, selector) ==
  ExtractTextFrom(element, Candidates(selector), 1, <<>>)

\* the inner loop of _extract_list: for sub_elem in sub_elements
RECURSIVE CollectTexts(_, _, _, _)
CollectTexts(element, elems, j, items) ==
  IF j > Len(elems) THEN [ok |-> TRUE, items |-> items]
  ELSE
    LET text == text_content(element, elems[j])
    IN IF ~text.ok THEN [ok |-> FALSE, items |-> items]
       ELSE IF Truthy(text.text) /\ strip(text.text.chars) # <<>>
         THEN CollectTexts(element, elems, j + 1,
                           Append(items, strip(text.text.chars)))
         ELSE CollectTexts(element, elems, j + 1, items)

RECURSIVE ExtractListFrom(_, _, _, _, _)
ExtractListFrom(element, sels, k, items, queried) ==
  IF k > Len(sels) THEN Returned(items, queried)
  ELSE
    LET subs == query_selector_all(element, sels[k])
        qd == Append(queried, sels[k])
    IN IF ~subs.ok THEN Returned(items, qd)                      \* except: pass
       ELSE LET got == CollectTexts(element, subs.elems, 1, items)
            IN IF ~got.ok THEN Returned(got.items, qd)           \* except: pass
               ELSE IF got.items # <<>> THEN Returned(got.items, qd)  \* break
               ELSE ExtractListFrom(element, sels, k + 1, got.items, qd)

\* bug: the "if items: break" is missing, so every candidate is queried and
\* the texts of all of them are merged
RECURSIVE ExtractListNoBreakFrom(_, _, _, _, _)
ExtractListNoBreakFrom(element, sels, k, items, queried) ==
  IF k > Len(sels) THEN Returned(items, queried)
  ELSE
    LET subs == query_selector_all(element, sels[k])
        qd == Append(queried, sels[k])
    IN IF ~subs.ok THEN Returned(items, qd)
       ELSE LET got == CollectTexts(element, subs.elems, 1, items)
            IN IF ~got.ok THEN Returned(got.items, qd)
               ELSE ExtractListNoBreakFrom(element, sels, k + 1, got.items, qd)

_extract_list_no_break(element, selector) ==
  ExtractListNoBreakFrom(element, Candidates(selector), 1, <<>>, <<>>)

\* MHNQuestScraper._extract_list(element, selector)
_extract_list(element, selector) ==
  ExtractListFrom(element, Candidates(selector), 1, <<>>, <<>>)

----------------------------------------------------------------------------
(* SpecExtract: a field extractor is called once on a scoped element.      *)

\* the field selector strings of ScraperConfig.selectors the extractors are
\* called with for monsters and for the skills of an armor piece: one, two
\* and three candidates
ExtractSelectors ==
  { selectors.monsters.name_en, selectors.monsters.name_jp,
    selectors.monsters.weakness, selectors.armor.skills }

SeqsUpTo(S, n) == UNION { [1..m -> S] : m \in 0..n }

Range(f) == { f[x] : x \in DOMAIN f }

\* a sub-element none of the configured selectors matches
OtherClass == ".other"

\* the elements whose sub-elements are matched by the candidates of selector,
\* or by none of them
ElementsFor(selector) ==
  LET classes == { c[1] : c \in Range(Candidates(selector)) } \cup {OtherClass}
      kids == SeqsUpTo([cls : classes, text : TextSamples], MaxChildren)
  IN UNION { { [children |-> ch, err |-> e] :
                 e \in {NoErr} \cup { QueryErr(<<c>>) : c \in classes }
                               \cup { TextErr(i) : i \in 1..Len(ch) } } :
             ch \in kids }

NoResult == [value |-> <<>>, queried |-> <<>>, raised |-> FALSE]

ExtractInit ==
  /\ exSelector \in ExtractSelectors
  /\ exScope \in ElementsFor(exSelector)
  /\ exCall = "none"
  /\ exResult = NoResult

ExtractIdle ==
  /\ exSelector = <<>>
  /\ exScope = [children |-> <<>>, err |-> NoErr]
  /\ exCall = "none"
  /\ exResult = NoResult

ExtractTextCall ==
  /\ exCall = "none"
  /\ exCall' = "text"
  /\ exResult' = _extract_text(exScope, exSelector)
  /\ UNCHANGED <<exScope, exSelector, pVars, rVars, oVars>>

ExtractListCall ==
  /\ exCall = "none"
  /\ exCall' = "list"
  /\ exResult' = _extract_list(exScope, exSelector)
  /\ UNCHANGED <<exScope, exSelector, pVars, rVars, oVars>>

----------------------------------------------------------------------------
(* Data models.  A value is a str, a list of str or None; a dataclass      *)
(* instance and the dict made of it are sequences of key/value pairs in    *)
(* field order.                                                            *)

StrV(s) == [t |-> "str", s |-> s, l |-> <<>>]
ListV(l) == [t |-> "list", s |-> <<>>, l |-> l]
NoneV == [t |-> "none", s |-> <<>>, l |-> <<>>]

StrField(name) == [name |-> name, default |-> StrV(<<>>), list |-> FALSE]
ListField(name) == [name |-> name, default |-> NoneV, list |-> TRUE]
TypeField(tag) == [name |-> "type", default |-> StrV(<<tag>>), list |-> FALSE]

\* the dataclasses Monster, Weapon, Armor, Skill, Item: fields and defaults
Dataclasses ==
  [ Monster |-> << TypeField("monster"), StrField("en"), StrField("jp"),
                   ListField("weakness"), ListField("materials"),
                   StrField("habitat"), StrField("notes") >>,
    Weapon  |-> << TypeField("weapon"), StrField("en"), StrField("jp"),
                   StrField("weapon_class"), StrField("rarity"),
                   StrField("notes") >>,
    Armor   |-> << TypeField("armor"), StrField("en"), StrField("jp"),
                   StrField("slot"), ListField("skills"), StrField("notes") >>,
    Skill   |-> << TypeField("skill"), StrField("en"), StrField("jp"),
                   StrField("category"), StrField("description"),
                   StrField("notes") >>,
    Item    |-> << TypeField("item"), StrField("en"), StrField("jp"),
                   StrField("category"), StrField("description"),
                   StrField("notes") >> ]

\* __post_init__: a list field left None becomes []
post_init(field, value) ==
  IF field.list /\ value = NoneV THEN ListV(<<>>) ELSE value

\* cls(**kwargs): the generated __init__ followed by __post_init__
New(cls, kwargs) ==
  [ i \in 1..Len(Dataclasses[cls]) |->
      LET f == Dataclasses[cls][i]
      IN [k |-> f.name,
          v |-> post_init(f, IF f.name \in DOMAIN kwargs
                               THEN kwargs[f.name] ELSE f.default)] ]

\* dataclasses.asdict(self)
asdict(entry) == entry

\* bug: only None is removed, "" and [] stay
to_dict_keeps_empty(entry) ==
  SelectSeq(asdict(entry), LAMBDA kv : kv.v # NoneV)

\* GameDataEntry.to_dict
to_dict(entry) ==
  SelectSeq(asdict(entry),
            LAMBDA kv : kv.v # NoneV /\ kv.v # StrV(<<>>) /\ kv.v # ListV(<<>>))

Keys(d) == { d[i].k : i \in DOMAIN d }
Get(d, key) == d[CHOOSE i \in DOMAIN d : d[i].k = key].v

----------------------------------------------------------------------------
(* Category parsers of MHNQuestScraper.  A page answers the two item       *)
(* queries a parser can make: the section's item selector and the          *)
(* structural fallback selector.                                           *)

Sections == <<"monsters", "weapons", "armor", "skills", "items">>

FallbackSelector == CommaJoin(<<"div[class*='card']", "li", "tr">>)

\* page.query_selector_all(selector)
page_query_selector_all(page, section, selector) ==
  IF selector = FallbackSelector THEN page.fallback
  ELSE IF selector = selectors[section].item THEN page.primary
  ELSE [ok |-> TRUE, items |-> <<>>]

\* per section: the dataclass built and, after the name, the fields
\* extracted in source order
ParsePlan ==
  [ monsters |-> [cls |-> "Monster", fields |->
      << [attr |-> "jp", key |-> "name_jp", list |-> FALSE],
         [attr |-> "weakness", key |-> "weakness", list |-> TRUE],
         [attr |-> "materials", key |-> "materials", list |-> TRUE] >>],
    weapons |-> [cls |-> "Weapon", fields |->
      << [attr |-> "jp", key |-> "name_jp", list |-> FALSE],
         [attr |-> "weapon_class", key |-> "weapon_class", list |-> FALSE],
         [attr |-> "rarity", key |-> "rarity", list |-> FALSE] >>],
    armor |-> [cls |-> "Armor", fields |->
      << [attr |-> "jp", key |-> "name_jp", list |-> FALSE],
         [attr |-> "slot", key |-> "slot", list |-> FALSE],
         [attr |-> "skills", key |-> "skills", list |-> TRUE] >>],
    skills |-> [cls |-> "Skill", fields |->
      << [attr |-> "jp", key |-> "name_jp", list |-> FALSE],
         [attr |-> "description", key |-> "description", list |-> FALSE] >>],
    items |-> [cls |-> "Item", fields |->
      << [attr |-> "jp", key |-> "name_jp", list |-> FALSE],
         [attr |-> "category", key |-> "category", list |-> FALSE],
         [attr |-> "description", key |-> "description", list |-> FALSE] >>] ]

\* one planned field of one item through the field extractor
ExtractField(item, section, f) ==
  IF f.list
    THEN LET r == _extract_list(item, selectors[section][f.key])
         IN [raised |-> r.raised, v |-> ListV(r.value)]
    ELSE LET r == _extract_text(item, selectors[section][f.key])
         IN [raised |-> r.raised, v |-> StrV(r.value)]

\* the body of "for item in items: try: ..." for one item: a record, a
\* skip (no name), or an exception caught by the item's except clause
ParseItem(section, item) ==
  LET plan == ParsePlan[section]
      name_en == _extract_text(item, selectors[section].name_en)
      got == [i \in 1..Len(plan.fields) |-> ExtractField(item, section, plan.fields[i])]
      kwargs == [a \in {"en"} \cup { plan.fields[i].attr : i \in 1..Len(plan.fields) } |->
                   IF a = "en" THEN StrV(name_en.value)
                   ELSE got[CHOOSE i \in 1..Len(plan.fields) : plan.fields[i].attr = a].v]
  IN IF name_en.raised THEN [kind |-> "error", record |-> <<>>]
     ELSE IF name_en.value = <<>> THEN [kind |-> "skip", record |-> <<>>]  \* continue
     ELSE IF \E i \in 1..Len(got) : got[i].raised
       THEN [kind |-> "error", record |-> <<>>]
     ELSE [kind |-> "record", record |-> to_dict(New(plan.cls, kwargs))]

\* the loop "for item in items"
RECURSIVE ParseItemsFrom(_, _, _, _)
ParseItemsFrom(section, items, n, out) ==
  IF n > Len(items) THEN out
  ELSE LET r == ParseItem(section, items[n])
       IN ParseItemsFrom(section, items, n + 1,
            IF r.kind = "record" THEN Append(out, r.record) ELSE out)

\* bug: each record is inserted at the front of the result
RECURSIVE ParseItemsPrependFrom(_, _, _, _)
ParseItemsPrependFrom(section, items, n, out) ==
  IF n > Len(items) THEN out
  ELSE LET r == ParseItem(section, items[n])
       IN ParseItemsPrependFrom(section, items, n + 1,
            IF r.kind = "record" THEN <<r.record>> \o out ELSE out)

ParseItemsPrepend(section, items) == ParseItemsPrependFrom(section, items, 1, <<>>)

RECURSIVE AllChildren(_, _)
AllChildren(items, n) ==
  IF n = 0 THEN <<>> ELSE AllChildren(items, n - 1) \o items[n].children

\* bug: the fields of each item are looked up from the document, not from
\* the item element
ParseItemsDocumentScope(section, items) ==
  ParseItemsFrom(section,
                 [n \in DOMAIN items |->
                    [children |-> AllChildren(items, Len(items)), err |-> NoErr]],
                 1, <<>>)

ParseItems(section, items) == ParseItemsFrom(section, items, 1, <<>>)

ParseResult(records, queried) == [records |-> records, queried |-> queried]

\* bug: the fallback is also tried when the primary items gave no record
ParseSectionFallbackOnNoRecords(section, page) ==
  LET item_selector == selectors[section].item
      first == page_query_selector_all(page, section, item_selector)
      second == page_query_selector_all(page, section, FallbackSelector)
  IN IF ~first.ok THEN ParseResult(<<>>, <<item_selector>>)
     ELSE IF ParseItems(section, first.items) # <<>>
       THEN ParseResult(ParseItems(section, first.items), <<item_selector>>)
     ELSE IF ~second.ok
       THEN ParseResult(<<>>, <<item_selector, FallbackSelector>>)
     ELSE ParseResult(ParseItems(section, second.items),
                      <<item_selector, FallbackSelector>>)

\* the common body of _parse_monsters, _parse_weapons, _parse_armor,
\* _parse_skills and _parse_items
ParseSection(section, page) ==
  LET item_selector == selectors[section].item
      first == page_query_selector_all(page, section, item_selector)
  IN IF ~first.ok THEN ParseResult(<<>>, <<item_selector>>)       \* outer except
     ELSE IF first.items # <<>>
       THEN ParseResult(ParseItems(section, first.items), <<item_selector>>)
     ELSE LET second == page_query_selector_all(page, section, FallbackSelector)
          IN IF ~second.ok
               THEN ParseResult(<<>>, <<item_selector, FallbackSelector>>)
               ELSE ParseResult(ParseItems(section, second.items),
                                <<item_selector, FallbackSelector>>)

_parse_monsters(page) == ParseSection("monsters", page)
_parse_weapons(page) == ParseSection("weapons", page)
_parse_armor(page) == ParseSection("armor", page)
_parse_skills(page) == ParseSection("skills", page)
_parse_items(page) == ParseSection("items", page)

\* the dispatch at the end of _scrape_section
parse_section(section, page) ==
  CASE section = "monsters" -> _parse_monsters(page)
    [] section = "weapons" -> _parse_weapons(page)
    [] section = "armor" -> _parse_armor(page)
    [] section = "skills" -> _parse_skills(page)
    [] section = "items" -> _parse_items(page)
    [] OTHER -> ParseResult(<<>>, <<>>)

----------------------------------------------------------------------------
(* Item elements of the model: cards as in the tests' HTML fixtures and   *)
(* the ways a card falls short of them.                                    *)

Kid(cls, chars) == [cls |-> cls, text |-> Str(chars)]
Card(children) == [children |-> children, err |-> NoErr]

\* SAMPLE_MONSTER_HTML: a name, a Japanese name, two weaknesses, two
\* materials; the texts carry the surrounding whitespace of the markup
MonsterCard ==
  Card(<< Kid(".name-en", <<" ", "a", " ">>), Kid(".name-jp", <<"a", "a">>),
          Kid(".weakness", <<"a">>), Kid(".weakness", <<"a", "a">>),
          Kid(".material", <<"a", "a">>), Kid(".material", <<"a">>) >>)

\* a card named by the second name candidate, with one field of each of
\* the other sections
PlainCard ==
  Card(<< Kid(".name", <<"a", "a">>), Kid(".type", <<"a">>),
          Kid(".slot", <<"a">>), Kid(".skill", <<"a">>),
          Kid(".description", <<"a", " ", "a">>) >>)

\* a card whose first name candidate matches a blank element
BlankNameCard ==
  Card(<< Kid(".name-en", <<" ">>), Kid(".name", <<"a">>) >>)

\* page chrome matched by an item selector: no name at all
ChromeCard == Card(<< Kid(OtherClass, <<"a">>) >>)

\* a card whose handle raises when the Japanese name is queried
DetachedCard ==
  [children |-> << Kid(".name-en", <<"a">>), Kid(".name-jp", <<"a">>),
                   Kid(".weakness", <<"a">>) >>,
   err |-> QueryErr(<<".name-jp">>)]

SampleCards == {MonsterCard, PlainCard, BlankNameCard, ChromeCard, DetachedCard}

\* the pages of the model: what the item selector and the fallback selector
\* return, either of which may raise
Pages ==
  LET lists == SeqsUpTo(SampleCards, MaxItems)
      ok(l) == [ok |-> TRUE, items |-> l]
      bad == [ok |-> FALSE, items |-> <<>>]
  IN { [primary |-> ok(a), fallback |-> ok(b)] :
         <<a, b>> \in { x \in lists \X lists : Len(x[1]) + Len(x[2]) <= MaxItems } }
     \cup { [primary |-> bad, fallback |-> ok(b)] : b \in lists }
     \cup { [primary |-> ok(<<>>), fallback |-> bad] : b \in {<<>>} }

EmptyPage == [primary |-> [ok |-> TRUE, items |-> <<>>],
              fallback |-> [ok |-> TRUE, items |-> <<>>]]

----------------------------------------------------------------------------
(* SpecParse: a category parser is called once on a page.                  *)

ParseInit ==
  /\ pSection \in Range(Sections)
  /\ pPage \in Pages
  /\ pCall = "none"
  /\ pOut = ParseResult(<<>>, <<>>)

ParseIdle ==
  /\ pSection = "monsters"
  /\ pPage = EmptyPage
  /\ pCall = "none"
  /\ pOut = ParseResult(<<>>, <<>>)

ParseMonsters ==
  /\ pCall = "none" /\ pSection = "monsters"
  /\ pCall' = "parsed"
  /\ pOut' = _parse_monsters(pPage)
  /\ UNCHANGED <<pSection, pPage, exVars, rVars, oVars>>

ParseWeapons ==
  /\ pCall = "none" /\ pSection = "weapons"
  /\ pCall' = "parsed"
  /\ pOut' = _parse_weapons(pPage)
  /\ UNCHANGED <<pSection, pPage, exVars, rVars, oVars>>

ParseArmor ==
  /\ pCall = "none" /\ pSection = "armor"
  /\ pCall' = "parsed"
  /\ pOut' = _parse_armor(pPage)
  /\ UNCHANGED <<pSection, pPage, exVars, rVars, oVars>>

ParseSkills ==
  /\ pCall = "none" /\ pSection = "skills"
  /\ pCall' = "parsed"
  /\ pOut' = _parse_skills(pPage)
  /\ UNCHANGED <<pSection, pPage, exVars, rVars, oVars>>

ParseItemsCall ==
  /\ pCall = "none" /\ pSection = "items"
  /\ pCall' = "parsed"
  /\ pOut' = _parse_items(pPage)
  /\ UNCHANGED <<pSection, pPage, exVars, rVars, oVars>>

----------------------------------------------------------------------------
(* JSON text: a sequence of characters.  dumps writes a dict of str and    *)
(* list-of-str values the way json.dump does (", " and ": " separators,    *)
(* quotes and backslashes escaped); loads reads such a text back.          *)

QUOTE == "\""
BACKSLASH == "\\"

RECURSIVE escape(_)
escape(chars) ==
  IF chars = <<>> THEN <<>>
  ELSE IF Head(chars) \in {QUOTE, BACKSLASH}
    THEN <<BACKSLASH, Head(chars)>> \o escape(Tail(chars))
    ELSE <<Head(chars)>> \o escape(Tail(chars))

dumps_str(chars) == <<QUOTE>> \o escape(chars) \o <<QUOTE>>

RECURSIVE dumps_elems(_)
dumps_elems(l) ==
  IF l = <<>> THEN <<>>
  ELSE IF Len(l) = 1 THEN dumps_str(l[1])
  ELSE dumps_str(l[1]) \o <<",", " ">> \o dumps_elems(Tail(l))

dumps_value(v) ==
  CASE v.t = "str" -> dumps_str(v.s)
    [] v.t = "list" -> <<"[">> \o dumps_elems(v.l) \o <<"]">>
    [] v.t = "none" -> <<"null">>

RECURSIVE dumps_pairs(_)
dumps_pairs(d) ==
  IF d = <<>> THEN <<>>
  ELSE LET one == dumps_str(<<d[1].k>>) \o <<":", " ">> \o dumps_value(d[1].v)
       IN IF Len(d) = 1 THEN one
          ELSE one \o <<",", " ">> \o dumps_pairs(Tail(d))

\* json.dumps(data, ensure_ascii=False) of one dict
dumps(d) == <<"{">> \o dumps_pairs(d) \o <<"}">>

RECURSIVE skip_blanks(_, _)
skip_blanks(text, i) ==
  IF i <= Len(text) /\ text[i] = " " THEN skip_blanks(text, i + 1) ELSE i

\* the characters of a string, from just after its opening quote
RECURSIVE scan_string(_, _, _)
scan_string(text, i, acc) ==
  IF text[i] = QUOTE THEN [v |-> acc, next |-> i + 1]
  ELSE IF text[i] = BACKSLASH
    THEN scan_string(text, i + 2, Append(acc, text[i + 1]))
    ELSE scan_string(text, i + 1, Append(acc, text[i]))

\* the elements of an array, from just after "[" or ","
RECURSIVE scan_elems(_, _, _)
scan_elems(text, i, acc) ==
  LET at == skip_blanks(text, i)
  IN IF text[at] = "]" THEN [v |-> acc, next |-> at + 1]
     ELSE IF text[at] = "," THEN scan_elems(text, at + 1, acc)
     ELSE LET str == scan_string(text, at + 1, <<>>)
          IN scan_elems(text, str.next, Append(acc, str.v))

scan_value(text, i) ==
  IF text[i] = "[" THEN LET l == scan_elems(text, i + 1, <<>>)
                        IN [v |-> ListV(l.v), next |-> l.next]
  ELSE IF text[i] = "null" THEN [v |-> NoneV, next |-> i + 1]
  ELSE LET str == scan_string(text, i + 1, <<>>)
       IN [v |-> StrV(str.v), next |-> str.next]

\* the pairs of an object, from just after "{" or ","
RECURSIVE scan_pairs(_, _, _)
scan_pairs(text, i, acc) ==
  LET at == skip_blanks(text, i)
  IN IF text[at] = "}" THEN acc
     ELSE IF text[at] = "," THEN scan_pairs(text, at + 1, acc)
     ELSE LET key == scan_string(text, at + 1, <<>>)
              val == scan_value(text, skip_blanks(text, key.next + 1))
          IN scan_pairs(text, val.next, Append(acc, [k |-> key.v[1], v |-> val.v]))

\* json.loads(text) of one object
loads(text) == scan_pairs(text, 2, <<>>)

----------------------------------------------------------------------------
(* SpecRecord: a GameDataEntry is converted with to_dict(), written as     *)
(* JSON and read back.                                                     *)

\* the values given to str and list fields
StrSamples == { NoneV, StrV(<<>>), StrV(<<"a">>), StrV(<<BACKSLASH, QUOTE, "]">>) }

ListSamples ==
  { NoneV, ListV(<<>>), ListV(<< <<"a">> >>), ListV(<< <<"a">>, <<QUOTE, ",">> >>) }

\* every instance of a dataclass with its fields (but type) set from the
\* samples
EntriesOf(cls) ==
  LET fields == { Dataclasses[cls][i] : i \in 2..Len(Dataclasses[cls]) }
      names == { f.name : f \in fields }
      isList(n) == \E f \in fields : f.name = n /\ f.list
  IN { New(cls, kw) :
         kw \in { k \in [names -> StrSamples \cup ListSamples] :
                    \A n \in names : IF isList(n) THEN k[n] \in ListSamples
                                     ELSE k[n] \in StrSamples } }

NoOutput == [dict |-> <<>>, json |-> <<>>, back |-> <<>>]

RecordInit ==
  /\ rEntry \in UNION { EntriesOf(cls) : cls \in DOMAIN Dataclasses }
  /\ rCall = "none"
  /\ rOut = NoOutput

RecordIdle ==
  /\ rEntry = <<>>
  /\ rCall = "none"
  /\ rOut = NoOutput

\* entry.to_dict(), json.dump of it, json.load of the text
Serialize ==
  /\ rCall = "none"
  /\ rCall' = "done"
  /\ rOut' = [dict |-> to_dict(rEntry),
              json |-> dumps(to_dict(rEntry)),
              back |-> loads(dumps(to_dict(rEntry)))]
  /\ UNCHANGED <<rEntry, exVars, pVars, oVars>>

----------------------------------------------------------------------------
(* Category parsers of MHNScraper (gemini).  They work on the parsed HTML: *)
(* a row is a tag with its first direct text node, its img tags and the    *)
(* h3 / div.name / p / div.description tags below it (None: no such node). *)

\* CONFIG["sections"][section]["item_selector"]
CONFIG_item_selector ==
  [ monsters |-> CommaJoin(<<"div.monster-card", "tr.monster-row">>),
    weapons  |-> CommaJoin(<<"div.weapon-card">>),
    armor    |-> CommaJoin(<<"div.armor-card">>),
    skills   |-> CommaJoin(<<"div.skill-card">>),
    items    |-> CommaJoin(<<"div.material-card">>) ]

\* soup.find_all("div", class_=lambda x: x and "card" in x)
CardFallback == <<"div", "class~card">>

Entry(pairs) == [i \in 1..Len(pairs) |-> [k |-> pairs[i][1], v |-> pairs[i][2]]]

\* the body of "for row in rows: try: ..." of parse_monsters
MonsterRow(row) ==
  LET name_en == IF Truthy(row.text) THEN row.text.chars ELSE <<"Unknown Monster">>
      weak == SelectSeq(row.imgs, LAMBDA img : "weak" \in img.classes)
  IN IF \E i \in DOMAIN weak : ~weak[i].alt.some
       THEN [kind |-> "error", record |-> <<>>]          \* img['alt']: KeyError
       ELSE [kind |-> "record", record |->
              Entry(<< <<"type", StrV(<<"monster">>)>>,
                       <<"en", StrV(strip(name_en))>>,
                       <<"jp", StrV(<<"TODO">>)>>,
                       <<"weakness", ListV([i \in DOMAIN weak |-> weak[i].alt.chars])>>,
                       <<"materials", ListV(<<>>)>>,
                       <<"notes", StrV(<<>>)>> >>)]

\* the body of the row loop of parse_skills
SkillRow(row) ==
  LET name == IF row.h3.some THEN row.h3 ELSE row.name
      desc == IF row.p.some THEN row.p ELSE row.description
  IN [kind |-> "record", record |->
       Entry(<< <<"type", StrV(<<"skill">>)>>,
                <<"en", StrV(IF name.some THEN strip(name.chars) ELSE <<"Unknown Skill">>)>>,
                <<"jp", StrV(<<>>)>>,
                <<"description", StrV(IF desc.some THEN strip(desc.chars) ELSE <<>>)>>,
                <<"notes", StrV(<<>>)>> >>)]

RECURSIVE RowsFrom(_, _, _, _)
RowsFrom(section, rows, n, out) ==
  IF n > Len(rows) THEN out
  ELSE LET r == IF section = "monsters" THEN MonsterRow(rows[n]) ELSE SkillRow(rows[n])
       IN RowsFrom(section, rows, n + 1,
            IF r.kind = "record" THEN Append(out, r.record) ELSE out)

\* MHNScraper.parse_monsters(html)
parse_monsters(html) ==
  LET rows == html.primary.items
  IN IF rows # <<>>
       THEN ParseResult(RowsFrom("monsters", rows, 1, <<>>),
                        <<CONFIG_item_selector.monsters>>)
       ELSE ParseResult(RowsFrom("monsters", html.fallback.items, 1, <<>>),
                        <<CONFIG_item_selector.monsters, CardFallback>>)

\* MHNScraper.parse_skills(html)
parse_skills(html) ==
  ParseResult(RowsFrom("skills", html.primary.items, 1, <<>>),
              <<CONFIG_item_selector.skills>>)

\* MHNScraper.parse_weapons(html): a fixed example entry
parse_weapons(html) ==
  ParseResult(<< Entry(<< <<"type", StrV(<<"weapon">>)>>,
                          <<"en", StrV(<<"Example Weapon">>)>>,
                          <<"jp", StrV(<<"rei">>)>>,
                          <<"weapon_class", StrV(<<"Sword">>)>> >>) >>, <<>>)

\* MHNScraper.parse_armor(html): a fixed example entry
parse_armor(html) ==
  ParseResult(<< Entry(<< <<"type", StrV(<<"armor">>)>>,
                          <<"en", StrV(<<"Example Helm">>)>>,
                          <<"jp", StrV(<<"rei">>)>>,
                          <<"slot", StrV(<<"head">>)>> >>) >>, <<>>)

\* MHNScraper.parse_items(html): a fixed example entry
parse_items(html) ==
  ParseResult(<< Entry(<< <<"type", StrV(<<"item">>)>>,
                          <<"en", StrV(<<"Iron Ore">>)>>,
                          <<"jp", StrV(<<"tekkoseki">>)>>,
                          <<"category", StrV(<<"material">>)>> >>) >>, <<>>)

\* the parser_func run() passes for each section
parser_func(section, html) ==
  CASE section = "monsters" -> parse_monsters(html)
    [] section = "skills" -> parse_skills(html)
    [] section = "items" -> parse_items(html)
    [] section = "weapons" -> parse_weapons(html)
    [] section = "armor" -> parse_armor(html)

Row(text, imgs, h3, name, p, description) ==
  [text |-> text, imgs |-> imgs, h3 |-> h3, name |-> name, p |-> p,
   description |-> description]

Img(classes, alt) == [classes |-> classes, alt |-> alt]

\* a card that starts with its name as text and has two weakness icons
NamedRow ==
  Row(Str(<<" ", "a", " ">>),
      << Img({"weak"}, Str(<<"a">>)), Img({"weakness"}, Str(<<"a", "a">>)) >>,
      Str(<<"a">>), None, Str(<<"a", " ", "a">>), None)

\* MOCK_MONSTER_HTML: the card starts with the line break and indentation
\* before its first child tag; the name is in div.name
IndentedRow ==
  Row(Str(<<" ">>), << Img({"weakness"}, Str(<<"a">>)) >>,
      None, Str(<<"a", "a">>), None, Str(<<"a">>))

\* a card with no text of its own and an empty heading
BareRow == Row(None, <<>>, Str(<<>>), None, None, None)

\* a card with nothing a parser looks for
EmptyRow == Row(None, <<>>, None, None, None, None)

\* a card whose weakness icon has no alt attribute
NoAltRow == Row(Str(<<"a">>), << Img({"weak"}, None) >>, Str(<<"a">>), None, None, None)

SampleRows == {NamedRow, IndentedRow, BareRow, EmptyRow, NoAltRow}

\* the parsed documents of the model: the rows the item selector matches
\* and the divs whose class contains "card"
Htmls ==
  LET lists == SeqsUpTo(SampleRows, MaxItems)
      ok(l) == [ok |-> TRUE, items |-> l]
  IN { [primary |-> ok(x[1]), fallback |-> ok(x[2])] :
         x \in { y \in lists \X lists : Len(y[1]) + Len(y[2]) <= MaxItems } }

----------------------------------------------------------------------------
(* SpecGParse: a parser of MHNScraper is called once on a document.        *)

GParseInit ==
  /\ pSection \in Range(Sections)
  /\ pPage \in Htmls
  /\ pCall = "none"
  /\ pOut = ParseResult(<<>>, <<>>)

GParseMonsters ==
  /\ pCall = "none" /\ pSection = "monsters"
  /\ pCall' = "parsed"
  /\ pOut' = parse_monsters(pPage)
  /\ UNCHANGED <<pSection, pPage, exVars, rVars, oVars>>

GParseSkills ==
  /\ pCall = "none" /\ pSection = "skills"
  /\ pCall' = "parsed"
  /\ pOut' = parse_skills(pPage)
  /\ UNCHANGED <<pSection, pPage, exVars, rVars, oVars>>

GParseWeapons ==
  /\ pCall = "none" /\ pSection = "weapons"
  /\ pCall' = "parsed"
  /\ pOut' = parse_weapons(pPage)
  /\ UNCHANGED <<pSection, pPage, exVars, rVars, oVars>>

GParseArmor ==
  /\ pCall = "none" /\ pSection = "armor"
  /\ pCall' = "parsed"
  /\ pOut' = parse_armor(pPage)
  /\ UNCHANGED <<pSection, pPage, exVars, rVars, oVars>>

GParseItems ==
  /\ pCall = "none" /\ pSection = "items"
  /\ pCall' = "parsed"
  /\ pOut' = parse_items(pPage)
  /\ UNCHANGED <<pSection, pPage, exVars, rVars, oVars>>


----------------------------------------------------------------------------
(* The run: report, section states and what both orchestrators share.      *)

\* a section outcome: {"count": ..., "errors": [...]}
Outcome(count, errors) == [count |-> count, errors |-> errors]

NoExit == -1
NoPage == [primary |-> [ok |-> FALSE, items |-> <<>>],
           fallback |-> [ok |-> FALSE, items |-> <<>>]]

\* the order of the loop in MHNScraper.run
GOrder == <<"monsters", "skills", "items", "weapons", "armor">>

\* str(e) of the exception a step raises
Cause(e) == <<e>>

\* the ways page.goto fails: the navigation timeout, or any other error
NavigationErrors == {"timeout", "error"}

RECURSIVE SumCounts(_, _)
SumCounts(rep, n) ==
  IF n = 0 THEN 0
  ELSE SumCounts(rep, n - 1)
       + (IF Sections[n] \in DOMAIN rep.sections
            THEN rep.sections[Sections[n]].count ELSE 0)

\* sum(scraper.report[section]["count"] for section in [...])
total_entries(rep) == SumCounts(rep, Len(Sections))

\* the run is not in use
RunIdle ==
  /\ pc = "idle" /\ mode = "normal" /\ idx = 0
  /\ report = [sections |-> <<>>, global_errors |-> <<>>]
  /\ all_data = <<>>
  /\ browser = "none" /\ curPage = NoPage
  /\ catState = [s \in Range(Sections) |-> "PENDING"]
  /\ files = <<>> /\ debugFiles = {} /\ summaries = 0
  /\ exitCode = NoExit /\ escaped = FALSE /\ waited = "none" /\ settled = 0
  /\ parsed = "none"

\* the pages a navigation can load
RunPages ==
  { EmptyPage,
    [primary |-> [ok |-> TRUE, items |-> <<MonsterCard, ChromeCard>>],
     fallback |-> [ok |-> TRUE, items |-> <<>>]],
    [primary |-> [ok |-> FALSE, items |-> <<>>],
     fallback |-> [ok |-> TRUE, items |-> <<PlainCard>>]] }

----------------------------------------------------------------------------
(* Spec: a run of main_async (MHNQuestScraper).                            *)

RECURSIVE Combined(_, _)
\* combined_data of save_data: the values of all_data, extended in order
Combined(data, n) ==
  IF n = 0 THEN <<>> ELSE Combined(data, n - 1) \o data[Sections[n]]

\* the files save_data has written when it stops after `stage`
Written(data, rep, stage) ==
  LET combined == ("all" :> Combined(data, Len(Sections)))
      nonempty == { x \in Range(Sections) : data[x] # <<>> }
      each == [x \in nonempty |-> data[x]]
      rep_file == ("report" :> rep)
  IN CASE stage = "none" -> <<>>
       [] stage = "combined" -> combined
       [] stage = "sections" -> each @@ combined
       [] OTHER -> rep_file @@ each @@ combined

\* MHNQuestScraper.__init__ has run when main_async starts
RunInit ==
  /\ pc = "construct"
  /\ mode \in {"normal", "debug"}
  /\ idx = 0
  /\ report = [sections |-> [s \in Range(Sections) |-> Outcome(0, <<>>)],
               global_errors |-> <<>>]
  /\ all_data = [s \in Range(Sections) |-> <<>>]
  /\ browser = "none" /\ curPage = NoPage
  /\ catState = [s \in Range(Sections) |-> "PENDING"]
  /\ files = <<>> /\ debugFiles = {} /\ summaries = 0
  /\ exitCode = NoExit /\ escaped = FALSE /\ waited = "none" /\ settled = 0
  /\ parsed = "none"

\* an exception nothing catches ends the process with status 1
Uncaught ==
  /\ pc' = "exited"
  /\ exitCode' = 1

\* the except clause of main_async, then its finally clause
MainExcept(e) ==
  /\ report' = [report EXCEPT !.global_errors = Append(@, Cause(e))]
  /\ pc' = "summary"

\* a section loop that starts the attempt of the same section again
EndSection_again(states) ==
  /\ idx' = idx
  /\ pc' = "goto"
  /\ catState' = [states EXCEPT ![Sections[idx]] = "NAVIGATING"]

\* the section loop of scrape_all moves on
EndSection(states) ==
  IF idx < Len(Sections)
    THEN /\ idx' = idx + 1
         /\ pc' = "goto"
         /\ catState' = [states EXCEPT ![Sections[idx + 1]] = "NAVIGATING"]
    ELSE /\ idx' = idx
         /\ pc' = "close"
         /\ catState' = states

\* _scrape_section raises: the except clause of the section loop
FailSection(e) ==
  LET s == Sections[idx]
      error_msg == <<"Failed to scrape", s>> \o Cause(e)
  IN /\ report' = [report EXCEPT !.sections[s].errors = Append(@, error_msg)]
     /\ EndSection([catState EXCEPT ![s] = "FAILED"])
     /\ UNCHANGED <<mode, all_data, browser, curPage, files, debugFiles,
                    summaries, exitCode, escaped, waited, settled, exVars, pVars, rVars, parsed>>

\* setup_logging, ScraperConfig(), MHNQuestScraper(...)
Construct ==
  /\ pc = "construct"
  /\ pc' = "launch"
  /\ UNCHANGED <<mode, idx, report, all_data, browser, curPage, catState,
                 files, debugFiles, summaries, exitCode, escaped, waited, settled,
                 exVars, pVars, rVars, parsed>>

\* mkdir in MHNQuestScraper.__init__ raises, outside the try of main_async
ConstructFail ==
  /\ pc = "construct"
  /\ Uncaught
  /\ UNCHANGED <<mode, idx, report, all_data, browser, curPage, catState,
                 files, debugFiles, summaries, escaped, waited, settled,
                 exVars, pVars, rVars, parsed>>

\* chromium.launch, new_context, new_page; the loop starts
Launch ==
  /\ pc = "launch"
  /\ browser' = "open"
  /\ idx' = 1
  /\ pc' = "goto"
  /\ catState' = [catState EXCEPT ![Sections[1]] = "NAVIGATING"]
  /\ UNCHANGED <<mode, report, all_data, curPage, files, debugFiles,
                 summaries, exitCode, escaped, waited, settled, exVars, pVars, rVars, parsed>>

\* chromium.launch raises
LaunchFail ==
  /\ pc = "launch"
  /\ MainExcept("error")
  /\ UNCHANGED <<mode, idx, all_data, browser, curPage, catState, files,
                 debugFiles, summaries, exitCode, escaped, waited, settled,
                 exVars, pVars, rVars, parsed>>

\* new_context or new_page raises after the browser was launched and the
\* exception leaves the block without releasing it
NewPageFailLeaks ==
  /\ pc = "launch"
  /\ browser' = "open"
  /\ MainExcept("error")
  /\ UNCHANGED <<mode, idx, all_data, curPage, catState, files,
                 debugFiles, summaries, exitCode, escaped, waited, settled,
                 exVars, pVars, rVars, parsed>>

\* new_context or new_page raises after the browser was launched: the
\* exception leaves the "async with async_playwright()" block, whose exit
\* stops the driver and with it the browser it launched
NewPageFail ==
  /\ pc = "launch"
  /\ browser' = "closed"
  /\ MainExcept("error")
  /\ UNCHANGED <<mode, idx, all_data, curPage, catState, files,
                 debugFiles, summaries, exitCode, escaped, waited, settled,
                 exVars, pVars, rVars, parsed>>

\* page.goto succeeds
Goto ==
  /\ pc = "goto"
  /\ curPage' \in RunPages
  /\ parsed' = "none"
  /\ pc' = "settle"
  /\ catState' = [catState EXCEPT ![Sections[idx]] = "WAITING"]
  /\ waited' = "none" /\ settled' = 0
  /\ UNCHANGED <<mode, idx, report, all_data, browser, files, debugFiles,
                 summaries, exitCode, escaped, exVars, pVars, rVars>>

\* a failed navigation that is recorded but does not end the attempt
GotoFail_goes_on ==
  /\ pc = "goto"
  /\ \E e \in NavigationErrors :
       report' = [report EXCEPT !.sections[Sections[idx]].errors =
                    Append(@, <<"Failed to scrape", Sections[idx]>> \o Cause(e))]
  /\ catState' = [catState EXCEPT ![Sections[idx]] = "FAILED"]
  /\ pc' = "settle"
  /\ UNCHANGED <<mode, idx, all_data, browser, curPage, files, debugFiles,
                 summaries, exitCode, escaped, waited, settled,
                 exVars, pVars, rVars, parsed>>

\* page.goto times out or fails
GotoFail ==
  /\ pc = "goto"
  /\ \E e \in NavigationErrors : FailSection(e)

\* ScraperConfig: the settle delays in milliseconds
normal_wait == 3000
debug_wait == 6000

\* a settle wait that ignores the mode
Settle_any_mode ==
  /\ pc = "settle"
  /\ settled' = normal_wait
  /\ pc' = "wait"
  /\ UNCHANGED <<mode, idx, report, all_data, browser, curPage, catState,
                 files, debugFiles, summaries, exitCode, escaped, waited,
                 exVars, pVars, rVars, parsed>>

\* page.wait_for_timeout(wait_time)
Settle ==
  /\ pc = "settle"
  /\ LET wait_time == IF mode = "debug" THEN debug_wait ELSE normal_wait
     IN settled' = wait_time
  /\ pc' = "wait"
  /\ UNCHANGED <<mode, idx, report, all_data, browser, curPage, catState,
                 files, debugFiles, summaries, exitCode, escaped, waited,
                 exVars, pVars, rVars, parsed>>

\* page.wait_for_timeout raises
SettleFail ==
  /\ pc = "settle"
  /\ FailSection("error")

\* a content-ready wait whose expiry fails the section
AfterWait_timeout_fails(outcome) ==
  /\ waited' = outcome
  /\ UNCHANGED settled
  /\ pc' = IF mode = "debug" THEN "debug" ELSE "parse"
  /\ catState' = [catState EXCEPT ![Sections[idx]] =
                    IF outcome = "timeout" THEN "FAILED" ELSE "EXTRACTING"]
  /\ UNCHANGED <<mode, idx, report, all_data, browser, curPage, files,
                 debugFiles, summaries, exitCode, escaped, exVars, pVars, rVars, parsed>>

\* after the waits: the debug dump in debug mode, else the parser
AfterWait(outcome) ==
  /\ waited' = outcome
  /\ UNCHANGED settled
  /\ pc' = IF mode = "debug" THEN "debug" ELSE "parse"
  /\ catState' = [catState EXCEPT ![Sections[idx]] = "EXTRACTING"]
  /\ UNCHANGED <<mode, idx, report, all_data, browser, curPage, files,
                 debugFiles, summaries, exitCode, escaped, exVars, pVars, rVars, parsed>>

\* page.wait_for_selector finds a container
WaitSelector ==
  /\ pc = "wait"
  /\ AfterWait("found")

\* page.wait_for_selector raises PlaywrightTimeout: warned, proceeding
WaitTimeout ==
  /\ pc = "wait"
  /\ AfterWait("timeout")

\* page.wait_for_selector raises anything else
WaitError ==
  /\ pc = "wait"
  /\ FailSection("error")

\* page.content() and debug_file.write_text in debug mode
DebugSave ==
  /\ pc = "debug"
  /\ debugFiles' = debugFiles \cup {Sections[idx]}
  /\ pc' = "parse"
  /\ UNCHANGED <<mode, idx, report, all_data, browser, curPage, catState,
                 files, summaries, exitCode, escaped, waited, settled,
                 exVars, pVars, rVars, parsed>>

\* page.content() or write_text raises
DebugSaveFail ==
  /\ pc = "debug"
  /\ FailSection("error")

\* a loop body that reports the number of item elements, not of records
ParseCountsItems ==
  /\ pc = "parse"
  /\ LET s == Sections[idx]
     IN \E data \in {parse_section(s, curPage).records} :
          /\ all_data' = [all_data EXCEPT ![s] = data]
          /\ report' = [report EXCEPT !.sections[s].count =
                          Len(curPage.primary.items) + Len(curPage.fallback.items)]
          /\ parsed' = s
          /\ EndSection([catState EXCEPT ![s] = "DONE"])
  /\ UNCHANGED <<mode, browser, curPage, files, debugFiles, summaries,
                 exitCode, escaped, waited, settled, exVars, pVars, rVars>>

\* the parser of the section returns; the try body of the loop completes
Parse ==
  /\ pc = "parse"
  /\ LET s == Sections[idx]
     IN \E data \in {parse_section(s, curPage).records} :
          /\ all_data' = [all_data EXCEPT ![s] = data]
          /\ report' = [report EXCEPT !.sections[s].count = Len(data)]
          /\ parsed' = s
          /\ EndSection([catState EXCEPT ![s] = "DONE"])
  /\ UNCHANGED <<mode, browser, curPage, files, debugFiles, summaries,
                 exitCode, escaped, waited, settled, exVars, pVars, rVars>>

\* browser.close() after the loop; scrape_all returns all_data
Close ==
  /\ pc = "close"
  /\ browser' = "closed"
  /\ pc' = "save"
  /\ UNCHANGED <<mode, idx, report, all_data, curPage, catState, files,
                 debugFiles, summaries, exitCode, escaped, waited, settled,
                 exVars, pVars, rVars, parsed>>

\* browser.close() raises: scrape_all raises and its all_data is lost; the
\* exit of the "async with" block stops the driver and the browser
CloseFail ==
  /\ pc = "close"
  /\ browser' = "closed"
  /\ MainExcept("error")
  /\ UNCHANGED <<mode, idx, all_data, curPage, catState, files,
                 debugFiles, summaries, exitCode, escaped, waited, settled,
                 exVars, pVars, rVars, parsed>>

\* save_data(all_data) writes every file
SaveData ==
  /\ pc = "save"
  /\ files' = Written(all_data, report, "all")
  /\ pc' = "summary"
  /\ UNCHANGED <<mode, idx, report, all_data, browser, curPage, catState,
                 debugFiles, summaries, exitCode, escaped, waited, settled,
                 exVars, pVars, rVars, parsed>>

\* a write of save_data raises after the writes of `stage` were made
SaveFail ==
  /\ pc = "save"
  /\ \E stage \in {"none", "combined", "sections"} :
       files' = Written(all_data, report, stage)
  /\ MainExcept("error")
  /\ UNCHANGED <<mode, idx, all_data, browser, curPage, catState,
                 debugFiles, summaries, exitCode, escaped, waited, settled,
                 exVars, pVars, rVars, parsed>>

\* the finally clause of main_async: print_summary()
PrintSummary ==
  /\ pc = "summary"
  /\ summaries' = summaries + 1
  /\ pc' = "exit"
  /\ UNCHANGED <<mode, idx, report, all_data, browser, curPage, catState,
                 files, debugFiles, exitCode, escaped, waited, settled,
                 exVars, pVars, rVars, parsed>>

\* return 0 if total_entries > 0 else 1; sys.exit(exit_code)
Exit ==
  /\ pc = "exit"
  /\ exitCode' = IF total_entries(report) > 0 THEN 0 ELSE 1
  /\ pc' = "exited"
  /\ UNCHANGED <<mode, idx, report, all_data, browser, curPage, catState,
                 files, debugFiles, summaries, escaped, waited, settled,
                 exVars, pVars, rVars, parsed>>

----------------------------------------------------------------------------
(* SpecGemini: a run of main (MHNScraper).                                 *)

\* the documents a navigation can load
RunHtmls ==
  { EmptyPage,
    [primary |-> [ok |-> TRUE, items |-> <<NamedRow>>],
     fallback |-> [ok |-> TRUE, items |-> <<>>]],
    [primary |-> [ok |-> TRUE, items |-> <<>>],
     fallback |-> [ok |-> TRUE, items |-> <<BareRow>>]],
    [primary |-> [ok |-> TRUE, items |-> <<NoAltRow>>],
     fallback |-> [ok |-> TRUE, items |-> <<>>]] }

\* the files _write_output has written when it stops after `stage`
GWritten(data, rep, stage) ==
  LET main_file == ("all" :> data)
      each == [x \in DOMAIN data |-> data[x]]
      rep_file == ("report" :> rep)
  IN CASE stage = "none" -> <<>>
       [] stage = "combined" -> main_file
       [] stage = "sections" -> each @@ main_file
       [] OTHER -> rep_file @@ each @@ main_file

\* MHNScraper.__init__ has run when main calls run()
GRunInit ==
  /\ pc = "g_run"
  /\ mode \in {"normal", "debug"}
  /\ idx = 0
  /\ report = [sections |-> <<>>, global_errors |-> <<>>]
  /\ all_data = [s \in Range(Sections) |-> <<>>]
  /\ browser = "none" /\ curPage = NoPage
  /\ catState = [s \in Range(Sections) |-> "PENDING"]
  /\ files = <<>> /\ debugFiles = {} /\ summaries = 0
  /\ exitCode = NoExit /\ escaped = FALSE /\ waited = "none" /\ settled = 0
  /\ parsed = "none"

\* an exception leaves fetch_and_process: run() and main() do not catch it
GEscape ==
  /\ escaped' = TRUE
  /\ Uncaught

\* the except clause of fetch_and_process, then its finally clause
GFailSection(e) ==
  LET s == GOrder[idx]
      err_msg == <<"Critical failure in", s>> \o Cause(e)
  IN /\ report' = [sections |-> (s :> Outcome(0, <<err_msg>>)) @@ report.sections,
                   global_errors |-> Append(report.global_errors, err_msg)]
     /\ catState' = [catState EXCEPT ![s] = "FAILED"]
     /\ pc' = "g_close"
     /\ UNCHANGED <<mode, idx, all_data, browser, curPage, files,
                    debugFiles, summaries, exitCode, escaped, waited, settled,
                    exVars, pVars, rVars, parsed>>

\* run() makes its first call of fetch_and_process
GRun ==
  /\ pc = "g_run"
  /\ idx' = 1
  /\ pc' = "g_launch"
  /\ catState' = [catState EXCEPT ![GOrder[1]] = "NAVIGATING"]
  /\ UNCHANGED <<mode, report, all_data, browser, curPage, files,
                 debugFiles, summaries, exitCode, escaped, waited, settled,
                 exVars, pVars, rVars, parsed>>

\* p.chromium.launch(headless=True)
GLaunch ==
  /\ pc = "g_launch"
  /\ browser' = "open"
  /\ pc' = "g_new_page"
  /\ UNCHANGED <<mode, idx, report, all_data, curPage, catState, files,
                 debugFiles, summaries, exitCode, escaped, waited, settled,
                 exVars, pVars, rVars, parsed>>

\* p.chromium.launch raises, before the try of fetch_and_process
GLaunchFail ==
  /\ pc = "g_launch"
  /\ catState' = [catState EXCEPT ![GOrder[idx]] = "FAILED"]
  /\ GEscape
  /\ UNCHANGED <<mode, idx, report, all_data, browser, curPage, files,
                 debugFiles, summaries, waited, settled, exVars, pVars, rVars, parsed>>

\* browser.new_page()
GNewPage ==
  /\ pc = "g_new_page"
  /\ pc' = "g_goto"
  /\ UNCHANGED <<mode, idx, report, all_data, browser, curPage, catState,
                 files, debugFiles, summaries, exitCode, escaped, waited, settled,
                 exVars, pVars, rVars, parsed>>

\* browser.new_page() raises, before the try of fetch_and_process; the exit
\* of the "with sync_playwright()" block stops the driver and the browser
GNewPageFail ==
  /\ pc = "g_new_page"
  /\ browser' = "closed"
  /\ catState' = [catState EXCEPT ![GOrder[idx]] = "FAILED"]
  /\ GEscape
  /\ UNCHANGED <<mode, idx, report, all_data, curPage, files,
                 debugFiles, summaries, waited, settled, exVars, pVars, rVars, parsed>>

\* page.goto(url) succeeds; _handle_consent_popup never raises
GGoto ==
  /\ pc = "g_goto"
  /\ curPage' \in RunHtmls
  /\ parsed' = "none"
  /\ pc' = "g_wait"
  /\ catState' = [catState EXCEPT ![GOrder[idx]] = "WAITING"]
  /\ waited' = "none" /\ settled' = 0
  /\ UNCHANGED <<mode, idx, report, all_data, browser, files, debugFiles,
                 summaries, exitCode, escaped, exVars, pVars, rVars>>

\* page.goto(url) times out or fails
GGotoFail ==
  /\ pc = "g_goto"
  /\ \E e \in NavigationErrors : GFailSection(e)

\* after wait_for_load_state: the sleep and the page content come next
GAfterWait(outcome) ==
  /\ waited' = outcome
  /\ UNCHANGED settled
  /\ pc' = "g_content"
  /\ UNCHANGED <<mode, idx, report, all_data, browser, curPage, catState,
                 files, debugFiles, summaries, exitCode, escaped,
                 exVars, pVars, rVars, parsed>>

\* page.wait_for_load_state("networkidle") returns
GWaitIdle ==
  /\ pc = "g_wait"
  /\ GAfterWait("found")

\* it raises PlaywrightTimeout: warned, proceeding
GWaitTimeout ==
  /\ pc = "g_wait"
  /\ GAfterWait("timeout")

\* it raises anything else
GWaitError ==
  /\ pc = "g_wait"
  /\ GFailSection("error")

\* CONFIG["timeouts"]: the settle delays in milliseconds
timeouts == [normal |-> 4000, debug |-> 8000]

\* time.sleep, page.content(), _save_debug_html(content, section_key)
GContent ==
  /\ pc = "g_content"
  /\ LET _wait_time == IF mode = "debug" THEN timeouts.debug
                       ELSE timeouts.normal
     IN settled' = _wait_time
  /\ debugFiles' = IF mode = "debug" THEN debugFiles \cup {GOrder[idx]}
                   ELSE debugFiles
  /\ catState' = [catState EXCEPT ![GOrder[idx]] = "EXTRACTING"]
  /\ pc' = "g_parse"
  /\ UNCHANGED <<mode, idx, report, all_data, browser, curPage, files,
                 summaries, exitCode, escaped, waited, exVars, pVars, rVars, parsed>>

\* page.content() raises, or the debug file cannot be written
GContentFail ==
  /\ pc = "g_content"
  /\ GFailSection("error")

\* parser_func(content); self.data and the section outcome are set
GParse ==
  /\ pc = "g_parse"
  /\ LET s == GOrder[idx]
         items == parser_func(s, curPage).records
         count == Len(items)
     IN /\ all_data' = [all_data EXCEPT ![s] = items]
        /\ report' = [report EXCEPT !.sections =
             (s :> Outcome(count, IF count > 0 THEN <<>>
                                  ELSE << <<"No items found - check selectors">> >>))
             @@ @]
        /\ catState' = [catState EXCEPT ![s] = "DONE"]
        /\ parsed' = s
  /\ pc' = "g_close"
  /\ UNCHANGED <<mode, idx, browser, curPage, files, debugFiles, summaries,
                 exitCode, escaped, waited, settled, exVars, pVars, rVars>>

\* the finally clause: browser.close(); run() goes on
GClose ==
  /\ pc = "g_close"
  /\ browser' = "closed"
  /\ IF idx < Len(GOrder)
       THEN /\ idx' = idx + 1
            /\ pc' = "g_launch"
            /\ catState' = [catState EXCEPT ![GOrder[idx + 1]] = "NAVIGATING"]
       ELSE /\ idx' = idx
            /\ pc' = "g_write"
            /\ catState' = catState
  /\ UNCHANGED <<mode, report, all_data, curPage, files, debugFiles,
                 summaries, exitCode, escaped, waited, settled, exVars, pVars, rVars, parsed>>

\* browser.close() raises in the finally clause; the exit of the "with"
\* block stops the driver and the browser
GCloseFail ==
  /\ pc = "g_close"
  /\ browser' = "closed"
  /\ GEscape
  /\ UNCHANGED <<mode, idx, report, all_data, curPage, catState,
                 files, debugFiles, summaries, waited, settled, exVars, pVars, rVars, parsed>>

\* _write_output() writes every file
GWrite ==
  /\ pc = "g_write"
  /\ files' = GWritten(all_data, report, "all")
  /\ pc' = "g_return"
  /\ UNCHANGED <<mode, idx, report, all_data, browser, curPage, catState,
                 debugFiles, summaries, exitCode, escaped, waited, settled,
                 exVars, pVars, rVars, parsed>>

\* a write of _write_output raises after the writes of `stage` were made
GWriteFail ==
  /\ pc = "g_write"
  /\ \E stage \in {"none", "combined", "sections"} :
       files' = GWritten(all_data, report, stage)
  /\ Uncaught
  /\ UNCHANGED <<mode, idx, report, all_data, browser, curPage, catState,
                 debugFiles, summaries, escaped, waited, settled, exVars, pVars, rVars, parsed>>

\* run() and main() return: the interpreter exits with status 0
GReturn ==
  /\ pc = "g_return"
  /\ exitCode' = 0
  /\ pc' = "exited"
  /\ UNCHANGED <<mode, idx, report, all_data, browser, curPage, catState,
                 files, debugFiles, summaries, escaped, waited, settled,
                 exVars, pVars, rVars, parsed>>

----------------------------------------------------------------------------
(* Specifications.  Each one runs one part of the program; the variables   *)
(* of the other parts stay at their idle values.                           *)

InitExtract == ExtractInit /\ ParseIdle /\ RecordIdle /\ RunIdle

NextExtract == ExtractTextCall \/ ExtractListCall

SpecExtract == InitExtract /\ [][NextExtract]_vars

InitParse == ParseInit /\ ExtractIdle /\ RecordIdle /\ RunIdle

NextParse ==
  ParseMonsters \/ ParseWeapons \/ ParseArmor \/ ParseSkills \/ ParseItemsCall

SpecParse == InitParse /\ [][NextParse]_vars

InitGParse == GParseInit /\ ExtractIdle /\ RecordIdle /\ RunIdle

NextGParse ==
  GParseMonsters \/ GParseSkills \/ GParseWeapons \/ GParseArmor \/ GParseItems

SpecGParse == InitGParse /\ [][NextGParse]_vars

InitRecord == RecordInit /\ ExtractIdle /\ ParseIdle /\ RunIdle

NextRecord == Serialize

SpecRecord == InitRecord /\ [][NextRecord]_vars

Init == RunInit /\ ExtractIdle /\ ParseIdle /\ RecordIdle

Next ==
  \/ Construct \/ ConstructFail
  \/ Launch \/ LaunchFail \/ NewPageFail
  \/ Goto \/ GotoFail
  \/ Settle \/ SettleFail
  \/ WaitSelector \/ WaitTimeout \/ WaitError
  \/ DebugSave \/ DebugSaveFail
  \/ Parse
  \/ Close \/ CloseFail
  \/ SaveData \/ SaveFail
  \/ PrintSummary
  \/ Exit

Spec == Init /\ [][Next]_vars

InitGemini == GRunInit /\ ExtractIdle /\ ParseIdle /\ RecordIdle

NextGemini ==
  \/ GRun
  \/ GLaunch \/ GLaunchFail
  \/ GNewPage \/ GNewPageFail
  \/ GGoto \/ GGotoFail
  \/ GWaitIdle \/ GWaitTimeout \/ GWaitError
  \/ GContent \/ GContentFail
  \/ GParse
  \/ GClose \/ GCloseFail
  \/ GWrite \/ GWriteFail
  \/ GReturn

SpecGemini == InitGemini /\ [][NextGemini]_vars

----------------------------------------------------------------------------
(* What the extractor contracts speak of, stated on the element itself.    *)

\* s without its leading and trailing whitespace
Trimmed(s) ==
  LET solid == { i \in 1..Len(s) : s[i] \notin Whitespace }
  IN IF solid = {} THEN <<>>
     ELSE SubSeq(s, CHOOSE i \in solid : \A j \in solid : i <= j,
                    CHOOSE i \in solid : \A j \in solid : i >= j)

\* the sub-elements of element that sel matches, in document order
MatchedBy(element, sel) ==
  SelectSeq([i \in 1..Len(element.children) |-> i],
            LAMBDA i : <<element.children[i].cls>> = sel)

\* the trimmed text of sub-element i ("" when it has none)
TrimmedTextOf(element, i) ==
  IF element.children[i].text.some
    THEN Trimmed(element.children[i].text.chars)
    ELSE <<>>

\* the trimmed non-empty texts, in match order, of all elements sel matches
NonEmptyTexts(element, sel) ==
  LET m == MatchedBy(element, sel)
  IN SelectSeq([n \in 1..Len(m) |-> TrimmedTextOf(element, m[n])],
               LAMBDA t : t # <<>>)

\* evaluating candidate sel as a list candidate meets the raising call
ListEvalRaises(element, sel) ==
  \/ element.err = QueryErr(sel)
  \/ /\ element.err.kind = "text"
     /\ <<element.children[element.err.idx].cls>> = sel

\* evaluating candidate sel as a scalar candidate meets the raising call
TextEvalRaises(element, sel) ==
  \/ element.err = QueryErr(sel)
  \/ /\ element.err.kind = "text"
     /\ MatchedBy(element, sel) # <<>>
     /\ MatchedBy(element, sel)[1] = element.err.idx

IsPrefix(s, t) == Len(s) <= Len(t) /\ s = SubSeq(t, 1, Len(s))

\* C3: _extract_list queries the candidates in declaration order; the first
\* candidate that yields at least one non-empty text wins: the result is
\* exactly the trimmed non-empty texts of all its matches in match order,
\* nothing of another candidate is merged in, and no later candidate is
\* queried; a candidate whose matches all have empty text does not win and
\* the next candidate is queried.  (Stated for every candidate reached
\* without a raising handle; what a raising handle does is claim C18.)
C3_ListFirstYieldingCandidateWins ==
  exCall = "list" =>
    LET sels == Candidates(exSelector)
        r == exResult
    IN /\ IsPrefix(r.queried, sels)
       /\ \A k \in 1..Len(sels) :
            ( /\ \A j \in 1..k : ~ListEvalRaises(exScope, sels[j])
              /\ \A j \in 1..(k - 1) : NonEmptyTexts(exScope, sels[j]) = <<>> )
            => /\ k <= Len(r.queried)
               /\ NonEmptyTexts(exScope, sels[k]) # <<>>
                    => /\ r.value = NonEmptyTexts(exScope, sels[k])
                       /\ Len(r.queried) = k

\* an earlier candidate matched only blank text, a later one yields texts
C3_Witness ==
  /\ exCall = "list"
  /\ exScope.err = NoErr
  /\ Len(Candidates(exSelector)) >= 2
  /\ MatchedBy(exScope, Candidates(exSelector)[1]) # <<>>
  /\ NonEmptyTexts(exScope, Candidates(exSelector)[1]) = <<>>
  /\ NonEmptyTexts(exScope, Candidates(exSelector)[2]) # <<>>
  /\ exResult.value = NonEmptyTexts(exScope, Candidates(exSelector)[2])

\* C4: _extract_text queries the candidates in declaration order and
\* returns at once the trimmed text of the first match of the first
\* candidate that matches any element, "" when that text is empty or None;
\* no later candidate is queried, so an empty first match shadows a later
\* candidate's text.  (Stated for every candidate reached without a raising
\* handle.)
C4_TextFirstMatchingCandidateWins ==
  exCall = "text" =>
    LET sels == Candidates(exSelector)
        r == exResult
    IN /\ IsPrefix(r.queried, sels)
       /\ \A k \in 1..Len(sels) :
            ( /\ \A j \in 1..k : ~TextEvalRaises(exScope, sels[j])
              /\ \A j \in 1..(k - 1) : MatchedBy(exScope, sels[j]) = <<>> )
            => /\ k <= Len(r.queried)
               /\ MatchedBy(exScope, sels[k]) # <<>>
                    => /\ r.value = TrimmedTextOf(exScope, MatchedBy(exScope, sels[k])[1])
                       /\ Len(r.queried) = k

\* the first candidate matches an element with blank text, the second one an
\* element with a name: the result is ""
C4_Witness ==
  /\ exCall = "text"
  /\ exScope.err = NoErr
  /\ Len(Candidates(exSelector)) >= 2
  /\ MatchedBy(exScope, Candidates(exSelector)[1]) # <<>>
  /\ NonEmptyTexts(exScope, Candidates(exSelector)[2]) # <<>>
  /\ exResult.value = <<>>
  /\ exResult.queried = <<Candidates(exSelector)[1]>>

NoCandidateMatches(element, selector) ==
  \A k \in DOMAIN Candidates(selector) :
    MatchedBy(element, Candidates(selector)[k]) = <<>>

\* C5: when no candidate selector matches any element under the scope,
\* _extract_text returns "" and _extract_list returns [], neither raises,
\* and the report still holds no outcome error and no global error
C5_FieldAbsentIsEmptyValue ==
  (exCall # "none" /\ NoCandidateMatches(exScope, exSelector)) =>
    /\ exResult.value = <<>>
    /\ ~exResult.raised
    /\ report.global_errors = <<>>
    /\ \A s \in DOMAIN report.sections : report.sections[s].errors = <<>>

\* the scope holds a sub-element, but none a candidate matches
C5_Witness ==
  /\ exCall = "text"
  /\ exScope.children # <<>>
  /\ NoCandidateMatches(exScope, exSelector)
  /\ exResult.queried = Candidates(exSelector)
  /\ exResult.value = <<>>

----------------------------------------------------------------------------
(* Claims about the category parsers of MHNQuestScraper.                   *)

\* the candidate item elements a parse works on: the primary matches, or
\* the fallback matches when there are no primary ones
CandidateItems(page) ==
  IF ~page.primary.ok THEN <<>>
  ELSE IF page.primary.items # <<>> THEN page.primary.items
  ELSE IF page.fallback.ok THEN page.fallback.items
  ELSE <<>>

\* the category discriminator of each section
Discriminator ==
  [monsters |-> "monster", weapons |-> "weapon", armor |-> "armor",
   skills |-> "skill", items |-> "item"]

\* the display name the field extractor finds in an item
ExtractedName(section, item) == _extract_text(item, selectors[section].name_en).value

\* processing the item raises out of a field extractor
ItemRaises(section, item) ==
  \/ _extract_text(item, selectors[section].name_en).raised
  \/ \E i \in DOMAIN ParsePlan[section].fields :
       ExtractField(item, section, ParsePlan[section].fields[i]).raised

\* rec is the record of item: tagged with the section's discriminator,
\* named, and carrying exactly the non-empty extracted fields
IsRecordOf(rec, section, item) ==
  LET fields == ParsePlan[section].fields
      empty(v) == v = StrV(<<>>) \/ v = ListV(<<>>)
  IN /\ Keys(rec) \subseteq {"type", "en"} \cup { fields[i].attr : i \in DOMAIN fields }
     /\ "type" \in Keys(rec) /\ Get(rec, "type") = StrV(<<Discriminator[section]>>)
     /\ "en" \in Keys(rec) /\ Get(rec, "en") = StrV(ExtractedName(section, item))
     /\ \A i \in DOMAIN fields :
          LET v == ExtractField(item, section, fields[i]).v
          IN IF empty(v) THEN fields[i].attr \notin Keys(rec)
             ELSE fields[i].attr \in Keys(rec) /\ Get(rec, fields[i].attr) = v

\* C8: the parser output is exactly one record per candidate item whose
\* extracted name is non-empty and whose processing raised no error, in the
\* order of the candidates, each tagged with the category discriminator and
\* carrying the extracted fields; one well-formed monster card with a name,
\* two weaknesses and two materials yields exactly one monster record with
\* the name, both weaknesses and both materials
C8_OneRecordPerNamedItemInOrder ==
  pCall = "parsed" =>
    LET items == CandidateItems(pPage)
        named == SelectSeq([i \in 1..Len(items) |-> i],
                           LAMBDA i : /\ ExtractedName(pSection, items[i]) # <<>>
                                      /\ ~ItemRaises(pSection, items[i]))
    IN /\ Len(pOut.records) = Len(named)
       /\ \A n \in 1..Len(named) :
            IsRecordOf(pOut.records[n], pSection, items[named[n]])
       /\ (pSection = "monsters" /\ pPage.primary.ok /\ pPage.primary.items = <<MonsterCard>>)
            => pOut.records =
                 << << [k |-> "type", v |-> StrV(<<"monster">>)],
                       [k |-> "en", v |-> StrV(<<"a">>)],
                       [k |-> "jp", v |-> StrV(<<"a", "a">>)],
                       [k |-> "weakness", v |-> ListV(<< <<"a">>, <<"a", "a">> >>)],
                       [k |-> "materials", v |-> ListV(<< <<"a", "a">>, <<"a">> >>)] >> >>

\* two named cards and the records in the cards' order
C8_Witness ==
  /\ pCall = "parsed"
  /\ pSection = "monsters"
  /\ pPage.primary.ok /\ pPage.primary.items = <<PlainCard, MonsterCard>>
  /\ Len(pOut.records) = 2
  /\ Get(pOut.records[1], "en") = StrV(<<"a", "a">>)
  /\ Get(pOut.records[2], "en") = StrV(<<"a">>)
  /\ Get(pOut.records[2], "weakness") = ListV(<< <<"a">>, <<"a", "a">> >>)

----------------------------------------------------------------------------
(* Claims about the category parsers of both scrapers.                     *)

\* the generic structural fallback queries of the two scrapers
FallbackQueries == {FallbackSelector, CardFallback}

FallbackTried(out) == \E i \in DOMAIN out.queried : out.queried[i] \in FallbackQueries

\* C6: for every category, when the primary item-boundary selector yields
\* zero elements, the structural fallback selector is queried before the
\* parser concludes that the category has zero items
C6_FallbackTriedBeforeZeroItems ==
  ( /\ pCall = "parsed"
    /\ pPage.primary.ok /\ pPage.primary.items = <<>>
    /\ pOut.records = <<>> )
  => FallbackTried(pOut)

\* the display name an item has for its parser ("" when it has none)
DisplayName(section, item) ==
  IF "children" \in DOMAIN item THEN ExtractedName(section, item)
  ELSE IF section = "monsters"
    THEN (IF item.text.some THEN Trimmed(item.text.chars) ELSE <<>>)
  ELSE IF section = "skills"
    THEN (IF item.h3.some THEN Trimmed(item.h3.chars)
          ELSE IF item.name.some THEN Trimmed(item.name.chars) ELSE <<>>)
  ELSE <<>>

\* C7: every record a category parser emits has a non-empty en; an item
\* whose display name is empty or absent is excluded, not emitted as a
\* zero-value or placeholder record, so there are at most as many records
\* as candidate items (and as candidate items with a name)
C7_EveryRecordNamed ==
  pCall = "parsed" =>
    LET items == CandidateItems(pPage)
        named == { i \in DOMAIN items : DisplayName(pSection, items[i]) # <<>> }
    IN /\ \A n \in DOMAIN pOut.records :
            /\ "en" \in Keys(pOut.records[n])
            /\ Get(pOut.records[n], "en") # StrV(<<>>)
       /\ Len(pOut.records) <= Len(items)
       /\ Len(pOut.records) <= Cardinality(named)

----------------------------------------------------------------------------
(* Claim about the sparse serialization of a record.                       *)

\* C9: to_dict() contains exactly the attributes whose value is neither
\* None nor "" nor [], each with its original value and in field order, and
\* no attribute whose value is empty or absent; writing that mapping as JSON
\* and reading it back yields the same mapping
C9_SparseRoundTrip ==
  rCall = "done" =>
    LET d == rOut.dict
        set == { i \in DOMAIN rEntry :
                   /\ rEntry[i].v.t # "none"
                   /\ ~(rEntry[i].v.t = "str" /\ Len(rEntry[i].v.s) = 0)
                   /\ ~(rEntry[i].v.t = "list" /\ Len(rEntry[i].v.l) = 0) }
    IN /\ Keys(d) = { rEntry[i].k : i \in set }
       /\ Len(d) = Cardinality(set)
       /\ \A i \in set : Get(d, rEntry[i].k) = rEntry[i].v
       /\ \A i, j \in DOMAIN d : i < j =>
            \E a, b \in set : a < b /\ rEntry[a].k = d[i].k /\ rEntry[b].k = d[j].k
       /\ rOut.back = d

\* test_empty_fields_removed with a weakness that needs escaping: a monster
\* with a name, jp "", materials None -> [] and a non-empty weakness list
C9_Witness ==
  /\ rCall = "done"
  /\ Keys(rOut.dict) = {"type", "en", "weakness"}
  /\ Get(rOut.dict, "weakness") = ListV(<< <<"a">>, <<QUOTE, ",">> >>)
  /\ Get(rOut.dict, "en") = StrV(<<BACKSLASH, QUOTE, "]">>)
  /\ rOut.back = rOut.dict
  /\ Len(rOut.json) > 0

----------------------------------------------------------------------------
(* Claims about a whole run, of either scraper.                            *)

Attempted(s) == catState[s] # "PENDING"
Finished(s) == catState[s] \in {"DONE", "FAILED"}

\* the section has a recorded outcome with this count
HasCount(s, n) == s \in DOMAIN report.sections /\ report.sections[s].count = n

\* C1: a category whose attempt fails ends with count 0 and at least one
\* recorded error, no exception leaves the section loop, and when the run
\* has ended after a failure every category has been attempted
C1_CategoryIsolation ==
  /\ ~escaped
  /\ \A s \in Range(Sections) :
       catState[s] = "FAILED" =>
         /\ HasCount(s, 0)
         /\ report.sections[s].errors # <<>>
  /\ (pc = "exited" /\ \E s \in Range(Sections) : catState[s] = "FAILED") =>
       \A s \in Range(Sections) : Finished(s)

\* C2: when the process has exited, its exit code is 0 if the counts of
\* the five categories sum to more than zero, and 1 otherwise
C2_ExitCodeIffRecords ==
  pc = "exited" =>
    exitCode = (IF total_entries(report) > 0 THEN 0 ELSE 1)

\* neither the item selector nor the fallback matches anything on the page
ZeroItems(page) ==
  /\ page.primary.ok /\ page.primary.items = <<>>
  /\ page.fallback.ok /\ page.fallback.items = <<>>

\* C10: a category whose parser has found no item element at all is DONE
\* with count 0 and an empty error list, nothing has escaped, and when the
\* run has ended every category has been attempted
C10_EmptyCategoryIsNoError ==
  (parsed # "none" /\ ZeroItems(curPage)) =>
    /\ catState[parsed] = "DONE"
    /\ report.sections[parsed] = Outcome(0, <<>>)
    /\ all_data[parsed] = <<>>
    /\ pc = "exited" => \A s \in Range(Sections) : Finished(s)

\* processing the item raises inside the item loop of the section's parser:
\* out of a field extractor (a card), or at img['alt'] (a monster row)
Raises(section, item) ==
  IF "children" \in DOMAIN item THEN ItemRaises(section, item)
  ELSE /\ section = "monsters"
       /\ \E i \in DOMAIN item.imgs :
            "weak" \in item.imgs[i].classes /\ ~item.imgs[i].alt.some

\* C11: when processing an item of the parsed page raised, the category is
\* DONE all the same, no record comes from a raising item, and the
\* category's error list is empty
C11_ItemErrorStaysLocal ==
  LET items == CandidateItems(curPage)
  IN (parsed # "none" /\ \E i \in DOMAIN items : Raises(parsed, items[i])) =>
       /\ catState[parsed] = "DONE"
       /\ Len(all_data[parsed])
            <= Cardinality({ i \in DOMAIN items : ~Raises(parsed, items[i]) })
       /\ report.sections[parsed].errors = <<>>

\* C12: in the declaration order monsters, weapons, armor, skills, items a
\* category has left PENDING only when every category declared before it
\* is DONE or FAILED, in either mode and whatever the earlier outcomes
C12_DeclarationOrder ==
  \A i, j \in DOMAIN Sections :
    (i < j /\ Attempted(Sections[j])) => Finished(Sections[i])

\* C13: the summary is never printed twice, and it has been printed exactly
\* once when main_async is about to return its exit code and when the
\* process has ended, whatever raised on the way
C13_SummaryExactlyOnce ==
  /\ summaries <= 1
  /\ pc \in {"exit", "exited"} => summaries = 1


\* C14: once main_async has handled an error raised outside every category's
\* attempt (it is in global_errors), the partial output is on disk when the
\* process ends: the run report and the combined file of the records
\* extracted so far
C14_GlobalErrorKeepsOutput ==
  (pc = "exited" /\ report.global_errors # <<>>) =>
    /\ "report" \in DOMAIN files
    /\ "all" \in DOMAIN files
    /\ files["all"] = Combined(all_data, Len(Sections))


C17_PersistedFiles ==
  "report" \in DOMAIN files =>
    /\ DOMAIN files = {"all", "report"}
                        \cup { s \in Range(Sections) : all_data[s] # <<>> }
    /\ \A s \in Range(Sections) : s \in DOMAIN files => files[s] = all_data[s]
    /\ files["report"] = report
    /\ files["all"] = Combined(all_data, Len(Sections))


\* the call that raises on the scoped element was made by the extractor: the
\* failing query was issued, or the text of the failing sub-element was read
ErrorRaised ==
  LET err == exScope.err
      sel == <<exScope.children[err.idx].cls>>
  IN CASE err.kind = "query" -> err.sel \in Range(exResult.queried)
       [] err.kind = "text" ->
            /\ sel \in Range(exResult.queried)
            /\ exCall = "text" => MatchingFrom(exScope, sel, 1)[1] = err.idx
       [] OTHER -> FALSE

\* the candidate selector whose query or text read raises
FailingCandidate ==
  IF exScope.err.kind = "query" THEN exScope.err.sel
  ELSE <<exScope.children[exScope.err.idx].cls>>

\* the scoped element as it would be if the failing candidate matched nothing
WithoutFailingCandidate ==
  [children |-> SelectSeq(exScope.children,
                          LAMBDA c : <<c.cls>> # FailingCandidate),
   err |-> NoErr]

\* C18: when a query or a text read raises for one candidate, the extractor
\* raises nothing and returns what it would return if that candidate had
\* matched nothing: the later candidates are still evaluated and nothing
\* collected from the failing candidate is returned
C18_ExtractorErrorIsNoMatch ==
  (exCall # "none" /\ ErrorRaised) =>
    /\ ~exResult.raised
    /\ exResult.value =
         IF exCall = "text"
           THEN _extract_text(WithoutFailingCandidate, exSelector).value
           ELSE _extract_list(WithoutFailingCandidate, exSelector).value


\* an item-boundary query of the parser raises on the page: the primary one,
\* or the fallback one made when the primary one matched nothing
ItemQueryRaises(page) ==
  \/ ~page.primary.ok
  \/ page.primary.items = <<>> /\ ~page.fallback.ok

\* C19: when the parser was invoked for a section and its item-boundary query
\* raised, the section is FAILED, its count is 0 and its error list holds
\* the error
C19_ParserFailureFailsCategory ==
  (parsed # "none" /\ ItemQueryRaises(curPage)) =>
    /\ catState[parsed] = "FAILED"
    /\ report.sections[parsed].count = 0
    /\ report.sections[parsed].errors # <<>>


\* C20: after the content-ready wait of a section has timed out the section
\* is EXTRACTING, not FAILED, up to the call of its parser; and once the
\* parser has returned the section is DONE with the count of the records
\* parsed from the page and an empty error list
C20_WaitTimeoutIsNotFailure ==
  waited = "timeout" =>
    /\ pc \in {"debug", "parse"} => catState[Sections[idx]] = "EXTRACTING"
    /\ parsed # "none" =>
         /\ catState[parsed] = "DONE"
         /\ report.sections[parsed] =
              Outcome(Len(parse_section(parsed, curPage).records), <<>>)

\* a section whose content-ready wait timed out has ended DONE with records
\* and no error
C20_Witness ==
  /\ waited = "timeout"
  /\ parsed # "none"
  /\ catState[parsed] = "DONE"
  /\ report.sections[parsed].count > 0
  /\ report.sections[parsed].errors = <<>>

\* C21: no step taken at the settle delay or at the content-ready wait of a
\* section leaves that section FAILED, whatever the wait raised
C21_WaitNeverFails ==
  [][(pc \in {"settle", "wait"}) => (catState'[Sections[idx]] # "FAILED")]_vars

\* C22: a step that fails the section at page.goto takes it from NAVIGATING
\* to FAILED and does nothing else for it: no settle delay, no content-ready
\* wait, no markup dump and no parse happen in that step, the section keeps
\* count 0 and no records, the cause is appended to its error list, and the
\* loop is at the next section (NAVIGATING) or, after the last, at the close
C22_NavigationFailureSkipsSection ==
  [][(pc = "goto" /\ catState'[Sections[idx]] = "FAILED") =>
       (/\ catState[Sections[idx]] = "NAVIGATING"
        /\ <<settled', waited', debugFiles', all_data', parsed'>>
             = <<settled, waited, debugFiles, all_data, parsed>>
        /\ Sections[idx] \notin debugFiles'
        /\ all_data'[Sections[idx]] = <<>>
        /\ report'.sections[Sections[idx]].count = 0
        /\ \E e \in NavigationErrors :
             report'.sections[Sections[idx]].errors
               = << <<"Failed to scrape", Sections[idx]>> \o Cause(e) >>
        /\ IF idx < Len(Sections)
             THEN /\ idx' = idx + 1 /\ pc' = "goto"
                  /\ catState'[Sections[idx + 1]] = "NAVIGATING"
             ELSE pc' = "close")]_vars

\* the first section failed at its navigation with a timeout in a debug run:
\* nothing was dumped or parsed for it and the second section is being
\* navigated to
C22_Witness ==
  /\ mode = "debug"
  /\ idx = 2 /\ pc = "goto"
  /\ catState[Sections[1]] = "FAILED"
  /\ catState[Sections[2]] = "NAVIGATING"
  /\ report.sections[Sections[1]].errors
       = << <<"Failed to scrape", Sections[1], "timeout">> >>
  /\ Sections[1] \notin debugFiles
  /\ settled = 0 /\ waited = "none" /\ parsed = "none"

\* the moves of one section's state: along PENDING, NAVIGATING, WAITING,
\* EXTRACTING, DONE one place at a time, or from a state that is not
\* terminal to FAILED
SectionMove(a, b) ==
  \/ <<a, b>> \in { <<"PENDING", "NAVIGATING">>, <<"NAVIGATING", "WAITING">>,
                    <<"WAITING", "EXTRACTING">>, <<"EXTRACTING", "DONE">> }
  \/ a \notin {"DONE", "FAILED"} /\ b = "FAILED"

\* how far the run has come: the statements of main_async and of the
\* section loop in the order of the program text, the loop counted by idx
Progress ==
  CASE pc = "construct" -> 0
    [] pc = "launch" -> 1
    [] pc = "goto" -> 10 * idx
    [] pc = "settle" -> 10 * idx + 1
    [] pc = "wait" -> 10 * idx + 2
    [] pc = "debug" -> 10 * idx + 3
    [] pc = "parse" -> 10 * idx + 4
    [] pc = "close" -> 10 * Len(Sections) + 10
    [] pc = "save" -> 10 * Len(Sections) + 11
    [] pc = "summary" -> 10 * Len(Sections) + 12
    [] pc = "exit" -> 10 * Len(Sections) + 13
    [] OTHER -> 10 * Len(Sections) + 14

\* C23: every step of the run moves it forward in the program (so the run
\* ends after the last section and the loop comes to each section once); a
\* section's state changes only by the moves of the state machine (so a
\* terminal state is never left and no section is entered twice); at most
\* one section is under way at a time; and once the section loop has
\* started, every section is DONE or FAILED when the loop has been left,
\* whatever the navigations, waits and parses did
C23_EverySectionRunsOnceToTheEnd ==
  [][/\ Progress' > Progress
     /\ Progress' <= 10 * Len(Sections) + 14
     /\ \A s \in Range(Sections) :
          catState'[s] # catState[s] => SectionMove(catState[s], catState'[s])
     /\ Cardinality({ s \in Range(Sections) :
          catState'[s] \in {"NAVIGATING", "WAITING", "EXTRACTING"} }) <= 1
     /\ (idx' >= 1 /\ pc' \in {"close", "save", "summary", "exit", "exited"}) =>
          \A s \in Range(Sections) : catState'[s] \in {"DONE", "FAILED"}]_vars

\* the run has ended with sections of both terminal states
C23_Witness ==
  /\ pc = "exited"
  /\ \A s \in Range(Sections) : Finished(s)
  /\ \E s \in Range(Sections) : catState[s] = "DONE" /\ report.sections[s].count > 0
  /\ \E s \in Range(Sections) : catState[s] = "FAILED"

\* C24: every section has an outcome from the start of the run; it is count 0
\* with no errors as long as the section's attempt has not completed; it
\* changes only in the step that completes that section's attempt, and in no
\* step after that, so an attempt of one section leaves the outcomes of the
\* others as they were
C24_OutcomeWrittenOnce ==
  [][\A s \in Range(Sections) :
       /\ s \in DOMAIN report.sections
       /\ s \in DOMAIN report'.sections
       /\ ~Finished(s) => report.sections[s] = Outcome(0, <<>>)
       /\ report'.sections[s] # report.sections[s] =>
            (~Finished(s) /\ catState'[s] \in {"DONE", "FAILED"})]_vars

\* a page on which the item is the only item element
Alone(item) ==
  [primary |-> [ok |-> TRUE, items |-> <<item>>],
   fallback |-> [ok |-> TRUE, items |-> <<>>]]

\* the records the parser gives for each of the items when it is alone on
\* its page, one after the other
RECURSIVE EachAlone(_, _, _)
EachAlone(section, items, n) ==
  IF n = 0 THEN <<>>
  ELSE EachAlone(section, items, n - 1)
         \o parse_section(section, Alone(items[n])).records

\* C25: the records parsed from a page are, item by item, the records each
\* item element gives when it is the only one on the page: what an item's
\* record holds does not depend on the item elements beside it
C25_FieldsScopedToItem ==
  pCall = "parsed" =>
    LET items == CandidateItems(pPage)
    IN pOut.records = EachAlone(pSection, items, Len(items))

\* a page with two item elements has given two different records
C25_Witness ==
  /\ pCall = "parsed"
  /\ Len(CandidateItems(pPage)) = 2
  /\ Len(pOut.records) = 2
  /\ pOut.records[1] # pOut.records[2]

C27_CountsMatchRecords ==
  (pc = "save" \/ "all" \in DOMAIN files) =>
    /\ \A s \in Range(Sections) :
         /\ report.sections[s].count = Len(all_data[s])
         /\ report.sections[s].errors # <<>> => all_data[s] = <<>>
    /\ total_entries(report) = Len(Combined(all_data, Len(Sections)))
    /\ "all" \in DOMAIN files => Len(files["all"]) = total_entries(report)

\* the output is on disk after a run with a failed section and with records
C27_Witness ==
  /\ pc = "exit"
  /\ "all" \in DOMAIN files
  /\ total_entries(report) > 0
  /\ \E s \in Range(Sections) : report.sections[s].errors # <<>>

\* C28: the parser queries the fallback selector exactly when the primary
\* item query returned no element; when the primary query returned elements
\* and none of them has a display name, the fallback is not queried and the
\* parser returns no record
C28_FallbackOnlyOnZeroPrimary ==
  pCall = "parsed" =>
    LET first == pPage.primary
    IN /\ FallbackSelector \in Range(pOut.queried)
            <=> (first.ok /\ first.items = <<>>)
       /\ (/\ first.ok /\ first.items # <<>>
           /\ \A i \in DOMAIN first.items :
                ExtractedName(pSection, first.items[i]) = <<>>)
            => /\ pOut.queried = <<selectors[pSection].item>>
               /\ pOut.records = <<>>

\* every primary item lacks a name while the fallback selector would match
\* a named card: the fallback is not queried and nothing is returned
C28_Witness ==
  /\ pCall = "parsed"
  /\ pPage.primary.ok /\ pPage.primary.items # <<>>
  /\ \A i \in DOMAIN pPage.primary.items :
       ExtractedName(pSection, pPage.primary.items[i]) = <<>>
  /\ \E i \in DOMAIN pPage.fallback.items :
       ExtractedName(pSection, pPage.fallback.items[i]) # <<>>
  /\ FallbackSelector \notin Range(pOut.queried)
  /\ pOut.records = <<>>

============================================================================
